---------------------------- MODULE Spec2Model ----------------------------
(***************************************************************************)
(* Model of internal/runner: the Runner contract and its two variants,     *)
(* CmdRunner (a local child process) and ContainerRunner (a container run  *)
(* through the engine client).                                             *)
(*                                                                         *)
(* One runner handle is modelled.  `variant' says which implementation it  *)
(* is; `selfExits' says whether the workload terminates on its own.  Two   *)
(* goroutines use the handle: the owner (m_pc) calls Start and then, after *)
(* a successful Start, Wait; another goroutine (k_pc) calls Kill, at any   *)
(* time, up to MaxKills times.  The operating system and the container     *)
(* engine are the environment: every call that returns an error in the     *)
(* source may fail here.                                                   *)
(***************************************************************************)
EXTENDS Naturals, Sequences, FiniteSets, TLC

VARIABLES
    variant,        \* "cmd" (CmdRunner) or "container" (ContainerRunner)
    selfExits,      \* the workload terminates without being killed
    m_pc,           \* owner goroutine: position in Start / Wait
    startRes,       \* what Start returned ("none" until it returns)
    waitRes,        \* what Wait returned ("none" until it returns)
    k_pc,           \* killer goroutine: position in Kill
    k_err,          \* Kill's pending return value (result of ContainerStop)
    k_inWait,       \* the current/last Kill was entered while Wait was blocked
    killResults,    \* what each finished Kill returned, in order
    \* CmdRunner and the operating system
    cmdProcess,     \* c.cmd.Process: "nil" or "proc"
    pid,            \* c.pid
    procState,      \* "none", "running", "zombie" (exited, not waited), "reaped"
    exitStatus,     \* "none", "exit status 0", "exit status 1", "signal: killed"
    sigPending,     \* SIGKILL sent, not yet delivered
    \* ContainerRunner and the engine
    id,             \* c.id
    respID,         \* resp.ID, local to Start
    hostDirExists,  \* c.hostSocketDir exists on the host
    clientOpen,     \* c.dockerClient has not been closed
    stdout,         \* c.stdout
    stderr,         \* c.stderr
    ctrState,       \* engine: "none", "created", "running", "exited"
    ctrExitCode,    \* engine: exit code of the container once exited
    stopRequests,   \* number of ContainerStop requests issued for the container
    st,             \* the status Wait received on statusCh
    \* The container's log and the demultiplex goroutine
    ctrLog,         \* engine: the frames the container has emitted, in order
    logReader,      \* frames left to read in the ContainerLogs response
    demux_pc,       \* "none", "copying", "writing" (blocked in a pipe write), "done"
    pending,        \* the frame the blocked pipe write offers to its reader
    demuxErr,       \* StdCopy returned an error
    logReaderClosed,\* logReader.Close() has run
    stdoutWClosed,  \* stdoutWriter.Close() has run
    stderrWClosed,  \* stderrWriter.Close() has run
    outRecv,        \* what the consumer has read from Stdout(), in order
    errRecv,        \* what the consumer has read from Stderr(), in order
    outEOF,         \* the consumer's read of Stdout() returned EOF
    errEOF,         \* the consumer's read of Stderr() returned EOF
    \* Configuration bound at construction
    hostSocketDir,  \* c.hostSocketDir
    unixSocketGroup,\* cfg.UnixSocketGroup
    cmdEnv,         \* cmd.Env
    cfgMounts,      \* cfg.HostConfig.Mounts
    cfgEnv,         \* cfg.ContainerConfig.Env
    createReq,      \* the ContainerCreate request the engine received
    \* ResolveAddr
    raCall,         \* the arguments of the last ResolveAddr call
    raRes           \* what the last ResolveAddr call returned

vars == <<variant, selfExits, m_pc, startRes, waitRes, k_pc, k_err, k_inWait,
          killResults, cmdProcess, pid, procState, exitStatus, sigPending,
          id, respID, hostDirExists, clientOpen, stdout, stderr, ctrState,
          ctrExitCode, stopRequests, st, ctrLog, logReader, demux_pc, pending,
          demuxErr, logReaderClosed, stdoutWClosed, stderrWClosed, outRecv,
          errRecv, outEOF, errEOF, hostSocketDir, unixSocketGroup, cmdEnv,
          cfgMounts, cfgEnv, createReq, raCall, raRes>>

cmdVars == <<cmdProcess, pid, procState, exitStatus, sigPending>>
ctrVars == <<id, respID, hostDirExists, clientOpen, ctrState, ctrExitCode,
             stopRequests, st>>
streamVars == <<stdout, stderr>>
demuxVars == <<ctrLog, logReader, demux_pc, pending, demuxErr, logReaderClosed,
               stdoutWClosed, stderrWClosed, outRecv, errRecv, outEOF, errEOF>>
cfgVars == <<hostSocketDir, unixSocketGroup, cmdEnv, cfgMounts, cfgEnv,
             createReq>>
raVars == <<raCall, raRes>>
ownerVars == <<m_pc, startRes, waitRes>>
killerVars == <<k_pc, k_err, k_inWait, killResults>>
envVars == <<variant, selfExits>>

\* Number of Kill calls the killer goroutine makes.
MaxKills == 2

\* Process ids the operating system may assign (positive).
Pids == {7, 42}

\* Container ids the engine may assign (non-empty).
ContainerIDs == {"4f2a", "9bc1"}

Nil == "nil"

\* Number of frames the container writes to its log.
MaxFrames == 2

\* A frame of the engine's multiplexed log: the stream it belongs to and
\* its payload (here the position at which the container emitted it).
NoFrame == [stream |-> "none", data |-> 0]

\* const containerSocketDir = "/tmp"
containerSocketDir == "/tmp"

\* constants.EnvUnixSocketDir and constants.EnvUnixSocketGroup
EnvUnixSocketDir == "PLUGIN_UNIX_SOCKET_DIR"

EnvUnixSocketGroup == "PLUGIN_UNIX_SOCKET_GROUP"

\* The caller's inputs to NewContainerRunner the specifications draw from.
DefaultHostDir == "/tmp/abc"

HostDirs == {"/tmp/abc", "/tmp/abc/", "/tmp//abc", "/"}

SocketGroups == {0, 1000}

CallerEnvs == {<<>>, <<"PATH=/bin">>, <<"PLUGIN_UNIX_SOCKET_GROUP=7">>}

CallerMounts == {<<>>, <<[Type |-> "volume", Source |-> "data",
                          Target |-> "/data", ReadOnly |-> FALSE]>>}

---------------------------------------------------------------------------
(* fmt.Sprintf("%d", n) for n >= 0.                                        *)

Digit(d) ==
    CASE d = 0 -> "0" [] d = 1 -> "1" [] d = 2 -> "2" [] d = 3 -> "3"
      [] d = 4 -> "4" [] d = 5 -> "5" [] d = 6 -> "6" [] d = 7 -> "7"
      [] d = 8 -> "8" [] d = 9 -> "9"

RECURSIVE FormatInt(_)
FormatInt(n) ==
    IF n < 10 THEN Digit(n) ELSE FormatInt(n \div 10) \o Digit(n % 10)

---------------------------------------------------------------------------
(* Accessors.                                                              *)

CmdRunner_ID == FormatInt(pid)

ContainerRunner_ID == id

ID == IF variant = "cmd" THEN CmdRunner_ID ELSE ContainerRunner_ID

Stdout == stdout

Stderr == stderr

---------------------------------------------------------------------------
(* Construction.                                                           *)

\* NewCmdRunner: the pipes are obtained before start; pid is the zero value.
NewCmdRunner ==
    /\ hostSocketDir = "" /\ unixSocketGroup = 0 /\ cmdEnv = <<>>
    /\ cfgMounts = <<>> /\ cfgEnv = <<>>
    /\ stdout = "cmdStdoutPipe"
    /\ stderr = "cmdStderrPipe"
    /\ cmdProcess = Nil
    /\ pid = 0
    /\ procState = "none"
    /\ exitStatus = "none"
    /\ sigPending = FALSE

\* NewContainerRunner: a client is built, no container is created; id,
\* stdout and stderr are zero values.  The caller supplies an existing
\* host rendezvous directory.
\* cfg.HostConfig.Mounts = append(cfg.HostConfig.Mounts, mount.Mount{...})
MountsWithBind(mounts, hostDir) ==
    Append(mounts, [Type |-> "bind", Source |-> hostDir,
                    Target |-> containerSocketDir, ReadOnly |-> FALSE])

\* cmd.Env = append(cmd.Env, "<EnvUnixSocketDir>=<containerSocketDir>")
\* if cfg.UnixSocketGroup != 0 { cmd.Env = append(cmd.Env, "<EnvUnixSocketGroup>=<gid>") }
EnvWithSocketVars(env, group, always) ==
    LET withDir == Append(env, EnvUnixSocketDir \o "=" \o containerSocketDir)
    IN  IF group # 0 \/ always
        THEN Append(withDir, EnvUnixSocketGroup \o "=" \o FormatInt(group))
        ELSE withDir

\* A constructor that announces the group unconditionally.
EnvAfterConstruction_AlwaysGroup(env, group) ==
    EnvWithSocketVars(env, group, TRUE)

EnvAfterConstruction(env, group) == EnvWithSocketVars(env, group, FALSE)

NewContainerRunnerWith(hostDir, group, env, mounts) ==
    /\ hostSocketDir = hostDir
    /\ unixSocketGroup = group
    /\ cfgMounts = MountsWithBind(mounts, hostDir)
    /\ cmdEnv = EnvAfterConstruction(env, group)
    /\ cfgEnv = cmdEnv
    /\ id = ""
    /\ respID = ""
    /\ stdout = Nil
    /\ stderr = Nil
    /\ clientOpen = TRUE
    /\ hostDirExists = TRUE
    /\ ctrState = "none"
    /\ ctrExitCode = 0
    /\ stopRequests = 0
    /\ st = [recv |-> FALSE, code |-> 0, err |-> Nil]

NewContainerRunner == NewContainerRunnerWith(DefaultHostDir, 0, <<>>, <<>>)

\* Nothing has run yet: no log, no demultiplex goroutine, no engine
\* request, no ResolveAddr call.
\* The nil net.Addr.
NilAddr == [Net |-> Nil, Name |-> Nil]

NothingRun ==
    /\ ctrLog = <<>> /\ logReader = <<>> /\ demux_pc = "none"
    /\ pending = NoFrame /\ demuxErr = FALSE /\ logReaderClosed = FALSE
    /\ stdoutWClosed = FALSE /\ stderrWClosed = FALSE
    /\ outRecv = <<>> /\ errRecv = <<>> /\ outEOF = FALSE /\ errEOF = FALSE
    /\ createReq = [issued |-> FALSE, mounts |-> <<>>, env |-> <<>>]
    /\ raCall = [called |-> FALSE, network |-> "", address |-> ""]
    /\ raRes = [addr |-> NilAddr, err |-> Nil]

Init ==
    /\ NothingRun
    /\ variant \in {"cmd", "container"}
    /\ selfExits \in BOOLEAN
    /\ m_pc = "new"
    /\ startRes = "none"
    /\ waitRes = "none"
    /\ k_pc = "idle"
    /\ k_err = Nil
    /\ k_inWait = FALSE
    /\ killResults = <<>>
    /\ IF variant = "cmd"
       THEN /\ NewCmdRunner
            /\ id = "" /\ respID = "" /\ clientOpen = FALSE
            /\ hostDirExists = FALSE /\ ctrState = "none" /\ ctrExitCode = 0
            /\ stopRequests = 0
            /\ st = [recv |-> FALSE, code |-> 0, err |-> Nil]
       ELSE /\ NewContainerRunner
            /\ cmdProcess = Nil /\ pid = 0 /\ procState = "none"
            /\ exitStatus = "none" /\ sigPending = FALSE

\* A container runner constructed from one of the given arguments.
ContainerInit(hostDirs, groups, envs, mounts) ==
    /\ NothingRun
    /\ variant = "container"
    /\ selfExits \in BOOLEAN
    /\ m_pc = "new"
    /\ startRes = "none"
    /\ waitRes = "none"
    /\ k_pc = "idle"
    /\ k_err = Nil
    /\ k_inWait = FALSE
    /\ killResults = <<>>
    /\ \E h \in hostDirs, g \in groups, e \in envs, m \in mounts :
         NewContainerRunnerWith(h, g, e, m)
    /\ cmdProcess = Nil /\ pid = 0 /\ procState = "none"
    /\ exitStatus = "none" /\ sigPending = FALSE

ConfigInit ==
    ContainerInit({DefaultHostDir, "/"}, SocketGroups, CallerEnvs, CallerMounts)

ResolveInit == ContainerInit(HostDirs, {0}, {<<>>}, {<<>>})

---------------------------------------------------------------------------
(* CmdRunner.Start: cmd.Start(), then the pid is recorded.                 *)

\* err := c.cmd.Start(); if err != nil { return err }
CmdRunner_Start_Spawn ==
    /\ variant = "cmd"
    /\ m_pc = "new"
    /\ \E ok \in BOOLEAN :
         IF ok
         THEN /\ cmdProcess' = "proc"
              /\ procState' = "running"
              /\ m_pc' = "spawned"
              /\ UNCHANGED startRes
         ELSE /\ m_pc' = "startFailed"
              /\ startRes' = "error: spawn"
              /\ UNCHANGED <<cmdProcess, procState>>
    /\ UNCHANGED <<pid, exitStatus, sigPending, waitRes>>
    /\ UNCHANGED <<killerVars, ctrVars, streamVars, envVars>>
    /\ UNCHANGED <<demuxVars, cfgVars, raVars>>

\* c.pid = c.cmd.Process.Pid; return nil
CmdRunner_Start_RecordPid ==
    /\ variant = "cmd"
    /\ m_pc = "spawned"
    /\ \E p \in Pids : pid' = p
    /\ m_pc' = "started"
    /\ startRes' = Nil
    /\ UNCHANGED <<cmdProcess, procState, exitStatus, sigPending, waitRes>>
    /\ UNCHANGED <<killerVars, ctrVars, streamVars, envVars>>
    /\ UNCHANGED <<demuxVars, cfgVars, raVars>>

---------------------------------------------------------------------------
(* CmdRunner.Wait: return c.cmd.Wait().  The call blocks until the child   *)
(* has exited, reaps it and reports a non-zero or signalled exit as an     *)
(* *ExitError.                                                             *)

CmdRunner_Wait_Call ==
    /\ variant = "cmd"
    /\ m_pc = "started"
    /\ m_pc' = "waiting"
    /\ UNCHANGED <<startRes, waitRes>>
    /\ UNCHANGED <<killerVars, cmdVars, ctrVars, streamVars, envVars>>
    /\ UNCHANGED <<demuxVars, cfgVars, raVars>>

\* The error cmd.Wait() reports for an exit status.
ExitError(status) == IF status = "exit status 0" THEN Nil ELSE status

CmdRunner_Wait_Return ==
    /\ variant = "cmd"
    /\ m_pc = "waiting"
    /\ procState = "zombie"
    /\ procState' = "reaped"
    /\ waitRes' = ExitError(exitStatus)
    /\ m_pc' = "waited"
    /\ UNCHANGED <<startRes, cmdProcess, pid, exitStatus, sigPending>>
    /\ UNCHANGED <<killerVars, ctrVars, streamVars, envVars>>
    /\ UNCHANGED <<demuxVars, cfgVars, raVars>>

---------------------------------------------------------------------------
(* CmdRunner.Kill: if c.cmd.Process != nil { return c.cmd.Process.Kill() } *)
(* Process.Kill fails with os.ErrProcessDone once the process has been     *)
(* waited for; a signal sent to a zombie succeeds and has no effect.       *)

CmdRunner_KillWith(sends) ==
    /\ variant = "cmd"
    /\ k_pc = "idle"
    /\ Len(killResults) < MaxKills
    /\ k_inWait' = (m_pc = "waiting")
    /\ IF cmdProcess # Nil
       THEN IF procState = "reaped"
            THEN /\ killResults' =
                       Append(killResults, "os: process already finished")
                 /\ UNCHANGED sigPending
            ELSE /\ killResults' = Append(killResults, Nil)
                 /\ sigPending' = IF sends /\ procState = "running"
                                  THEN TRUE ELSE sigPending
       ELSE /\ killResults' = Append(killResults, Nil)
            /\ UNCHANGED sigPending
    /\ UNCHANGED <<k_pc, k_err, cmdProcess, pid, procState, exitStatus>>
    /\ UNCHANGED <<ownerVars, ctrVars, streamVars, envVars>>
    /\ UNCHANGED <<demuxVars, cfgVars, raVars>>

\* A Kill that reports success without signalling the process.
CmdRunner_Kill_NoSignal == CmdRunner_KillWith(FALSE)

CmdRunner_Kill == CmdRunner_KillWith(TRUE)

---------------------------------------------------------------------------
(* The operating system: the child of CmdRunner.                           *)

\* A workload that terminates on its own exits with status 0 or 1.
OS_ProcessExits ==
    /\ procState = "running"
    /\ selfExits
    /\ \E status \in {"exit status 0", "exit status 1"} : exitStatus' = status
    /\ procState' = "zombie"
    /\ sigPending' = FALSE
    /\ UNCHANGED <<cmdProcess, pid>>
    /\ UNCHANGED <<ownerVars, killerVars, ctrVars, streamVars, envVars>>
    /\ UNCHANGED <<demuxVars, cfgVars, raVars>>

\* SIGKILL is delivered to the running child.
OS_DeliverKill ==
    /\ procState = "running"
    /\ sigPending
    /\ exitStatus' = "signal: killed"
    /\ procState' = "zombie"
    /\ sigPending' = FALSE
    /\ UNCHANGED <<cmdProcess, pid>>
    /\ UNCHANGED <<ownerVars, killerVars, ctrVars, streamVars, envVars>>
    /\ UNCHANGED <<demuxVars, cfgVars, raVars>>

---------------------------------------------------------------------------
(* ContainerRunner.Start: create, record the id, start, attach to the logs *)
(* and hand the two pipe readers out.  Each engine call is one round trip  *)
(* and may fail.  The engine refuses a bind mount whose source is missing. *)

\* resp, err := c.dockerClient.ContainerCreate(...); if err != nil { return err }
ContainerRunner_Start_Create ==
    /\ variant = "container"
    /\ m_pc = "new"
    /\ \E ok \in BOOLEAN, newID \in ContainerIDs :
         IF ok /\ hostDirExists
         THEN /\ ctrState' = "created"
              /\ respID' = newID
              /\ m_pc' = "created"
              /\ UNCHANGED startRes
         ELSE /\ m_pc' = "startFailed"
              /\ startRes' = "error: create"
              /\ UNCHANGED <<ctrState, respID>>
    /\ createReq' = [issued |-> TRUE, mounts |-> cfgMounts, env |-> cfgEnv]
    /\ UNCHANGED <<waitRes, id, hostDirExists, clientOpen, ctrExitCode,
                   stopRequests, st>>
    /\ UNCHANGED <<killerVars, cmdVars, streamVars, envVars>>
    /\ UNCHANGED <<demuxVars, raVars>>
    /\ UNCHANGED <<hostSocketDir, unixSocketGroup, cmdEnv, cfgMounts, cfgEnv>>

\* c.id = resp.ID
ContainerRunner_Start_RecordID ==
    /\ variant = "container"
    /\ m_pc = "created"
    /\ id' = respID
    /\ m_pc' = "idRecorded"
    /\ UNCHANGED <<startRes, waitRes, respID, hostDirExists, clientOpen,
                   ctrState, ctrExitCode, stopRequests, st>>
    /\ UNCHANGED <<killerVars, cmdVars, streamVars, envVars>>
    /\ UNCHANGED <<demuxVars, cfgVars, raVars>>

\* if err := c.dockerClient.ContainerStart(ctx, c.id, ...); err != nil { return err }
ContainerRunner_Start_ContainerStart ==
    /\ variant = "container"
    /\ m_pc = "idRecorded"
    /\ \E ok \in BOOLEAN :
         IF ok /\ hostDirExists
         THEN /\ ctrState' = "running"
              /\ m_pc' = "ctrStarted"
              /\ UNCHANGED startRes
         ELSE /\ m_pc' = "startFailed"
              /\ startRes' = "error: start"
              /\ UNCHANGED ctrState
    /\ UNCHANGED <<waitRes, id, respID, hostDirExists, clientOpen,
                   ctrExitCode, stopRequests, st>>
    /\ UNCHANGED <<killerVars, cmdVars, streamVars, envVars>>
    /\ UNCHANGED <<demuxVars, cfgVars, raVars>>

\* logReader, err := c.dockerClient.ContainerLogs(ctx, c.id,
\*     types.ContainerLogsOptions{ShowStdout: true, ShowStderr: true})
\* if err != nil { return err }
\* c.stdout, stdoutWriter = io.Pipe(); c.stderr, stderrWriter = io.Pipe()
\* go func() {...}(); return nil
\* The options do not set Follow: the response carries the frames logged
\* so far and then ends.
ContainerRunner_Start_AttachWith(stderrHandle) ==
    /\ variant = "container"
    /\ m_pc = "ctrStarted"
    /\ \E ok \in BOOLEAN :
         IF ok
         THEN /\ logReader' = ctrLog
              /\ stdout' = "stdoutPipeReader"
              /\ stderr' = stderrHandle
              /\ demux_pc' = "copying"
              /\ m_pc' = "started"
              /\ startRes' = Nil
         ELSE /\ m_pc' = "startFailed"
              /\ startRes' = "error: logs"
              /\ UNCHANGED <<stdout, stderr, logReader, demux_pc>>
    /\ UNCHANGED waitRes
    /\ UNCHANGED <<killerVars, cmdVars, ctrVars, envVars>>
    /\ UNCHANGED <<ctrLog, pending, demuxErr, logReaderClosed, stdoutWClosed,
                   stderrWClosed, outRecv, errRecv, outEOF, errEOF>>
    /\ UNCHANGED <<cfgVars, raVars>>

\* A Start that keeps the stderr pipe's read half to itself.
ContainerRunner_Start_Attach_NoStderr == ContainerRunner_Start_AttachWith(Nil)

ContainerRunner_Start_Attach ==
    ContainerRunner_Start_AttachWith("stderrPipeReader")

---------------------------------------------------------------------------
(* The demultiplex goroutine of ContainerRunner.Start:                     *)
(*     defer func() { logReader.Close(); stdoutWriter.Close();             *)
(*                    stderrWriter.Close() }()                             *)
(*     if _, err := stdcopy.StdCopy(stdoutWriter, stderrWriter, logReader);*)
(*         err != nil { c.logger.Error(...) }                              *)
(* StdCopy reads one frame at a time and writes its payload to the writer  *)
(* of its stream.  A write to an io.Pipe blocks until the reader has taken *)
(* the data.                                                               *)

\* StdCopy reads the next frame and enters the pipe write.
Demux_Copy ==
    /\ demux_pc = "copying"
    /\ logReader # <<>>
    /\ pending' = Head(logReader)
    /\ logReader' = Tail(logReader)
    /\ demux_pc' = "writing"
    /\ UNCHANGED <<ctrLog, demuxErr, logReaderClosed, stdoutWClosed,
                   stderrWClosed, outRecv, errRecv, outEOF, errEOF>>
    /\ UNCHANGED <<ownerVars, killerVars, cmdVars, ctrVars, streamVars,
                   envVars, cfgVars, raVars>>

\* The deferred function: what it closes.
Demux_Shutdown(closesLog, closesOut, closesErr) ==
    /\ logReaderClosed' = closesLog
    /\ stdoutWClosed' = closesOut
    /\ stderrWClosed' = closesErr
    /\ demux_pc' = "done"

\* StdCopy receives EOF from logReader and returns nil.
Demux_EOFWith(closesErr) ==
    /\ demux_pc = "copying"
    /\ logReader = <<>>
    /\ Demux_Shutdown(TRUE, TRUE, closesErr)
    /\ UNCHANGED <<ctrLog, logReader, pending, demuxErr, outRecv, errRecv,
                   outEOF, errEOF>>
    /\ UNCHANGED <<ownerVars, killerVars, cmdVars, ctrVars, streamVars,
                   envVars, cfgVars, raVars>>

\* A goroutine that leaves the stderr writer open when it ends.
Demux_EOF_LeavesStderrOpen == Demux_EOFWith(FALSE)

Demux_EOF == Demux_EOFWith(TRUE)

\* StdCopy fails to read or decode a frame and returns the error, which is
\* logged.
Demux_DecodeErrorWith(deferred) ==
    /\ demux_pc = "copying"
    /\ demuxErr' = TRUE
    /\ Demux_Shutdown(deferred, deferred, deferred)
    /\ UNCHANGED <<ctrLog, logReader, pending, outRecv, errRecv, outEOF,
                   errEOF>>
    /\ UNCHANGED <<ownerVars, killerVars, cmdVars, ctrVars, streamVars,
                   envVars, cfgVars, raVars>>

\* A goroutine whose cleanup is skipped on the error path.
Demux_DecodeError_NoCleanup == Demux_DecodeErrorWith(FALSE)

Demux_DecodeError == Demux_DecodeErrorWith(TRUE)

---------------------------------------------------------------------------
(* The consumer of the runner's streams: reads of Stdout() and Stderr().   *)
(* A read takes the data of a blocked write, returns EOF once the write    *)
(* half is closed, and blocks otherwise.                                   *)

Consumer_ReadStdout ==
    /\ variant = "container"
    /\ Stdout # Nil
    /\ ~outEOF
    /\ IF demux_pc = "writing" /\ pending.stream = "stdout"
       THEN /\ outRecv' = Append(outRecv, pending.data)
            /\ pending' = NoFrame
            /\ demux_pc' = "copying"
            /\ UNCHANGED outEOF
       ELSE /\ stdoutWClosed
            /\ outEOF' = TRUE
            /\ UNCHANGED <<outRecv, pending, demux_pc>>
    /\ UNCHANGED <<ctrLog, logReader, demuxErr, logReaderClosed, stdoutWClosed,
                   stderrWClosed, errRecv, errEOF>>
    /\ UNCHANGED <<ownerVars, killerVars, cmdVars, ctrVars, streamVars,
                   envVars, cfgVars, raVars>>

Consumer_ReadStderr ==
    /\ variant = "container"
    /\ Stderr # Nil
    /\ ~errEOF
    /\ IF demux_pc = "writing" /\ pending.stream = "stderr"
       THEN /\ errRecv' = Append(errRecv, pending.data)
            /\ pending' = NoFrame
            /\ demux_pc' = "copying"
            /\ UNCHANGED errEOF
       ELSE /\ stderrWClosed
            /\ errEOF' = TRUE
            /\ UNCHANGED <<errRecv, pending, demux_pc>>
    /\ UNCHANGED <<ctrLog, logReader, demuxErr, logReaderClosed, stdoutWClosed,
                   stderrWClosed, outRecv, outEOF>>
    /\ UNCHANGED <<ownerVars, killerVars, cmdVars, ctrVars, streamVars,
                   envVars, cfgVars, raVars>>

---------------------------------------------------------------------------
(* ContainerRunner.Wait: ContainerWait(..., WaitConditionNotRunning), then *)
(* a select over the error channel and the status channel.                 *)

ContainerRunner_Wait_Call ==
    /\ variant = "container"
    /\ m_pc = "started"
    /\ m_pc' = "waiting"
    /\ UNCHANGED <<startRes, waitRes>>
    /\ UNCHANGED <<killerVars, cmdVars, ctrVars, streamVars, envVars>>
    /\ UNCHANGED <<demuxVars, cfgVars, raVars>>

\* A wait for the container to be removed never ends: nothing removes it.
WaitConditionRemoved == ctrState = "removed"

\* container.WaitConditionNotRunning
WaitConditionNotRunning == ctrState # "running"

\* case st := <-statusCh: if st.Error != nil { return errors.New(...) }; return nil
\* The engine sends the status once the condition holds; st.StatusCode is
\* not read.
ContainerRunner_Wait_StatusWith(readsError) ==
    /\ variant = "container"
    /\ m_pc = "waiting"
    /\ WaitConditionNotRunning
    /\ \E e \in {Nil, "engine error message"} :
         /\ st' = [recv |-> TRUE, code |-> ctrExitCode, err |-> e]
         /\ waitRes' = IF readsError /\ e # Nil THEN e ELSE Nil
    /\ m_pc' = "waited"
    /\ UNCHANGED <<startRes, id, respID, hostDirExists, clientOpen, ctrState,
                   ctrExitCode, stopRequests>>
    /\ UNCHANGED <<killerVars, cmdVars, streamVars, envVars>>
    /\ UNCHANGED <<demuxVars, cfgVars, raVars>>

\* A Wait that does not look at the status's error field.
ContainerRunner_Wait_Status_IgnoresError ==
    ContainerRunner_Wait_StatusWith(FALSE)

ContainerRunner_Wait_Status == ContainerRunner_Wait_StatusWith(TRUE)

\* case err := <-errCh: if err != nil { return err }
\* The client sends only non-nil errors on errCh (a transport failure).
ContainerRunner_Wait_Err ==
    /\ variant = "container"
    /\ m_pc = "waiting"
    /\ waitRes' = "error: transport"
    /\ m_pc' = "waited"
    /\ UNCHANGED startRes
    /\ UNCHANGED <<killerVars, cmdVars, ctrVars, streamVars, envVars>>
    /\ UNCHANGED <<demuxVars, cfgVars, raVars>>

---------------------------------------------------------------------------
(* ContainerRunner.Kill:                                                   *)
(*     defer c.dockerClient.Close()                                        *)
(*     defer os.RemoveAll(c.hostSocketDir)                                 *)
(*     if c.id != "" { return c.dockerClient.ContainerStop(...) }          *)
(*     return nil                                                          *)
(* The deferred calls run last-in first-out after the return value is set. *)
(* c.id is read without synchronisation: the read sees the value stored at *)
(* the moment the step is taken (the old or the new value, whichever the   *)
(* interleaving gives).  A successful stop request returns once            *)
(* the container is no longer running; a failed one changes nothing.       *)

ContainerRunner_Kill_StopIf(idAssigned) ==
    /\ variant = "container"
    /\ k_pc = "idle"
    /\ Len(killResults) < MaxKills
    /\ k_inWait' = (m_pc = "waiting")
    /\ IF idAssigned
       THEN /\ stopRequests' = stopRequests + 1
            /\ \E ok \in BOOLEAN :
                 IF ok /\ id # ""
                 THEN /\ k_err' = Nil
                      /\ IF ctrState = "running"
                         THEN /\ ctrState' = "exited"
                              /\ ctrExitCode' = 137
                         ELSE UNCHANGED <<ctrState, ctrExitCode>>
                 ELSE /\ k_err' = "error: stop"
                      /\ UNCHANGED <<ctrState, ctrExitCode>>
       ELSE /\ k_err' = Nil
            /\ UNCHANGED <<stopRequests, ctrState, ctrExitCode>>
    /\ k_pc' = "removeAll"
    /\ UNCHANGED <<killResults, id, respID, hostDirExists, clientOpen, st>>
    /\ UNCHANGED <<ownerVars, cmdVars, streamVars, envVars>>
    /\ UNCHANGED <<demuxVars, cfgVars, raVars>>

\* A Kill that requests the stop without looking at c.id.
ContainerRunner_Kill_Stop_NoIdCheck == ContainerRunner_Kill_StopIf(TRUE)

ContainerRunner_Kill_Stop == ContainerRunner_Kill_StopIf(id # "")

ContainerRunner_Kill_RemoveAllWhen(runs) ==
    /\ variant = "container"
    /\ k_pc = "removeAll"
    /\ hostDirExists' = IF runs THEN FALSE ELSE hostDirExists
    /\ k_pc' = "close"
    /\ UNCHANGED <<k_err, k_inWait, killResults, id, respID, clientOpen,
                   ctrState, ctrExitCode, stopRequests, st>>
    /\ UNCHANGED <<ownerVars, cmdVars, streamVars, envVars>>
    /\ UNCHANGED <<demuxVars, cfgVars, raVars>>

\* A Kill whose deferred calls are registered in the other order: the
\* client is closed at the point where the directory should be removed.
ContainerRunner_Kill_RemoveAll_ClosesClient ==
    /\ variant = "container"
    /\ k_pc = "removeAll"
    /\ clientOpen' = FALSE
    /\ k_pc' = "close"
    /\ UNCHANGED <<k_err, k_inWait, killResults, id, respID, hostDirExists,
                   ctrState, ctrExitCode, stopRequests, st>>
    /\ UNCHANGED <<ownerVars, cmdVars, streamVars, envVars>>
    /\ UNCHANGED <<demuxVars, cfgVars, raVars>>

\* A cleanup that is not deferred: skipped when the stop request failed.
ContainerRunner_Kill_RemoveAll_NotDeferred ==
    ContainerRunner_Kill_RemoveAllWhen(k_err = Nil)

\* defer os.RemoveAll(c.hostSocketDir)
ContainerRunner_Kill_RemoveAll == ContainerRunner_Kill_RemoveAllWhen(TRUE)

\* defer c.dockerClient.Close(); Kill returns.
ContainerRunner_Kill_Close ==
    /\ variant = "container"
    /\ k_pc = "close"
    /\ clientOpen' = FALSE
    /\ killResults' = Append(killResults, k_err)
    /\ k_pc' = "idle"
    /\ UNCHANGED <<k_err, k_inWait, id, respID, hostDirExists, ctrState,
                   ctrExitCode, stopRequests, st>>
    /\ UNCHANGED <<ownerVars, cmdVars, streamVars, envVars>>
    /\ UNCHANGED <<demuxVars, cfgVars, raVars>>

---------------------------------------------------------------------------
(* The container engine: the workload inside the container.                *)

Engine_ContainerExits ==
    /\ ctrState = "running"
    /\ selfExits
    /\ \E code \in {0, 1} : ctrExitCode' = code
    /\ ctrState' = "exited"
    /\ UNCHANGED <<id, respID, hostDirExists, clientOpen, stopRequests, st>>
    /\ UNCHANGED <<ownerVars, killerVars, cmdVars, streamVars, envVars>>
    /\ UNCHANGED <<demuxVars, cfgVars, raVars>>

\* The running workload writes a frame to its stdout or its stderr.
Engine_ContainerEmits ==
    /\ ctrState = "running"
    /\ Len(ctrLog) < MaxFrames
    /\ \E s \in {"stdout", "stderr"} :
         ctrLog' = Append(ctrLog, [stream |-> s, data |-> Len(ctrLog) + 1])
    /\ UNCHANGED <<logReader, demux_pc, pending, demuxErr, logReaderClosed,
                   stdoutWClosed, stderrWClosed, outRecv, errRecv, outEOF,
                   errEOF>>
    /\ UNCHANGED <<ownerVars, killerVars, cmdVars, ctrVars, streamVars,
                   envVars, cfgVars, raVars>>

---------------------------------------------------------------------------
(* Strings and paths: strings.HasPrefix, strings.TrimPrefix, path.Clean    *)
(* and path.Join of the Go standard library.                               *)

HasPrefix(s, prefix) ==
    /\ Len(s) >= Len(prefix)
    /\ SubSeq(s, 1, Len(prefix)) = prefix

TrimPrefix(s, prefix) ==
    IF HasPrefix(s, prefix) THEN SubSeq(s, Len(prefix) + 1, Len(s)) ELSE s

\* strings.Contains
Contains(s, substr) ==
    \E i \in 1..(Len(s) - Len(substr) + 1) :
        SubSeq(s, i, i + Len(substr) - 1) = substr

\* The non-empty elements of a path between its slashes, from position i on.
RECURSIVE Segments(_, _, _)
Segments(s, i, cur) ==
    IF i > Len(s)
    THEN IF cur = "" THEN <<>> ELSE <<cur>>
    ELSE IF SubSeq(s, i, i) = "/"
         THEN (IF cur = "" THEN <<>> ELSE <<cur>>) \o Segments(s, i + 1, "")
         ELSE Segments(s, i + 1, cur \o SubSeq(s, i, i))

\* path.Clean's rules 2 to 4 on the elements: drop ".", let ".." remove the
\* element before it, drop ".." at the root.
RECURSIVE CleanSegments(_, _, _)
CleanSegments(segs, kept, rooted) ==
    IF segs = <<>> THEN kept
    ELSE LET e == Head(segs)
             rest == Tail(segs)
         IN  IF e = "." THEN CleanSegments(rest, kept, rooted)
             ELSE IF e = ".."
                  THEN IF kept # <<>> /\ kept[Len(kept)] # ".."
                       THEN CleanSegments(rest, SubSeq(kept, 1, Len(kept) - 1),
                                          rooted)
                       ELSE IF rooted
                            THEN CleanSegments(rest, kept, rooted)
                            ELSE CleanSegments(rest, Append(kept, e), rooted)
                  ELSE CleanSegments(rest, Append(kept, e), rooted)

RECURSIVE JoinSegments(_)
JoinSegments(segs) ==
    IF segs = <<>> THEN ""
    ELSE IF Len(segs) = 1 THEN segs[1]
         ELSE segs[1] \o "/" \o JoinSegments(Tail(segs))

\* path.Clean
Clean(p) ==
    IF p = "" THEN "."
    ELSE LET rooted == SubSeq(p, 1, 1) = "/"
             kept == CleanSegments(Segments(p, 1, ""), <<>>, rooted)
         IN  IF rooted THEN "/" \o JoinSegments(kept)
             ELSE IF kept = <<>> THEN "." ELSE JoinSegments(kept)

\* path.Join of two elements: empty elements are ignored, the rest is
\* joined with a slash and cleaned.
Join(a, b) ==
    IF a = "" /\ b = "" THEN ""
    ELSE IF a = "" THEN Clean(b)
         ELSE IF b = "" THEN Clean(a)
              ELSE Clean(a \o "/" \o b)

---------------------------------------------------------------------------
(* ContainerRunner.ResolveAddr and ContainerRunner.Name.                   *)

SentinelPrefix == "PLUGIN_UNIX_SOCKET_DIR:"

\* net.ResolveUnixAddr("unix", address): never fails for the net "unix".
ResolveUnixAddr(address) ==
    [addr |-> [Net |-> "unix", Name |-> address], err |-> Nil]

\* The body of ResolveAddr, for the directory it joins the address to and
\* whether it looks at the prefix.
ResolveAddrIn(dir, checksPrefix, network, address) ==
    IF network = "unix"
    THEN IF checksPrefix /\ ~HasPrefix(address, SentinelPrefix)
         THEN [addr |-> NilAddr,
               err |-> "plugin is running inside container but needs an update to be compatible"]
         ELSE ResolveUnixAddr(Join(dir, TrimPrefix(address, SentinelPrefix)))
    ELSE [addr |-> NilAddr,
          err |-> "unsupported address: " \o network \o ", " \o address]

\* A ResolveAddr that joins the address to the container-side directory.
ContainerRunner_ResolveAddr_ContainerDir(network, address) ==
    ResolveAddrIn(containerSocketDir, TRUE, network, address)

\* A ResolveAddr that accepts addresses without the prefix.
ContainerRunner_ResolveAddr_NoPrefixCheck(network, address) ==
    ResolveAddrIn(hostSocketDir, FALSE, network, address)

ContainerRunner_ResolveAddr(network, address) ==
    ResolveAddrIn(hostSocketDir, TRUE, network, address)

\* func (c *ContainerRunner) Name() string { return c.image }
PluginImage == "plugin-image"

ContainerRunner_Name == PluginImage

\* The networks and advertised addresses ResolveAddr is called with.
Networks == {"unix", "tcp"}

Basenames == {"plugin.sock", "sub/plugin.sock"}

Addresses ==
    {SentinelPrefix \o b : b \in Basenames}
        \cup {"/tmp/plugin.sock", "127.0.0.1:1234"}

\* A call of ResolveAddr, in any state of the runner.
ContainerRunner_ResolveAddr_Call ==
    /\ variant = "container"
    /\ \E network \in Networks, address \in Addresses :
         /\ raCall' = [called |-> TRUE, network |-> network,
                       address |-> address]
         /\ raRes' = ContainerRunner_ResolveAddr(network, address)
    /\ UNCHANGED <<ownerVars, killerVars, cmdVars, ctrVars, streamVars,
                   envVars, demuxVars, cfgVars>>

---------------------------------------------------------------------------

Next ==
    \/ CmdRunner_Start_Spawn
    \/ CmdRunner_Start_RecordPid
    \/ CmdRunner_Wait_Call
    \/ CmdRunner_Wait_Return
    \/ CmdRunner_Kill
    \/ OS_ProcessExits
    \/ OS_DeliverKill
    \/ ContainerRunner_Start_Create
    \/ ContainerRunner_Start_RecordID
    \/ ContainerRunner_Start_ContainerStart
    \/ ContainerRunner_Start_Attach
    \/ ContainerRunner_Wait_Call
    \/ ContainerRunner_Wait_Status
    \/ ContainerRunner_Wait_Err
    \/ ContainerRunner_Kill_Stop
    \/ ContainerRunner_Kill_RemoveAll
    \/ ContainerRunner_Kill_Close
    \/ Engine_ContainerExits
    \/ Engine_ContainerEmits
    \/ Demux_Copy
    \/ Demux_EOF
    \/ Demux_DecodeError
    \/ Consumer_ReadStdout
    \/ Consumer_ReadStderr

Spec == Init /\ [][Next]_vars

\* The scheduler runs a goroutine whose blocking call can return, the
\* kernel delivers a pending SIGKILL, and a workload that terminates on its
\* own does terminate.
Fairness ==
    /\ WF_vars(CmdRunner_Wait_Return)
    /\ WF_vars(ContainerRunner_Wait_Status)
    /\ WF_vars(OS_ProcessExits)
    /\ WF_vars(OS_DeliverKill)
    /\ WF_vars(Engine_ContainerExits)

FairSpec == Spec /\ Fairness

\* The demultiplex goroutine runs, and the consumer keeps reading both
\* streams.
StreamFairness ==
    /\ WF_vars(Demux_Copy \/ Demux_EOF \/ Demux_DecodeError)
    /\ WF_vars(Consumer_ReadStdout)
    /\ WF_vars(Consumer_ReadStderr)

FairStreamSpec == Spec /\ Fairness /\ StreamFairness

\* The operations of the container runner, without its streams' traffic.
ContainerLifecycle ==
    \/ ContainerRunner_Start_Create
    \/ ContainerRunner_Start_RecordID
    \/ ContainerRunner_Start_ContainerStart
    \/ ContainerRunner_Start_Attach
    \/ ContainerRunner_Wait_Call
    \/ ContainerRunner_Wait_Status
    \/ ContainerRunner_Wait_Err
    \/ ContainerRunner_Kill_Stop
    \/ ContainerRunner_Kill_RemoveAll
    \/ ContainerRunner_Kill_Close
    \/ Engine_ContainerExits

\* Container runners over the constructor's arguments.
ConfigSpec == ConfigInit /\ [][ContainerLifecycle]_vars

ResolveNext == ContainerLifecycle \/ ContainerRunner_ResolveAddr_Call

\* Container runners over host directories, with ResolveAddr called at any
\* point of their life.
ResolveSpec == ResolveInit /\ [][ResolveNext]_vars

TypeOK ==
    /\ variant \in {"cmd", "container"}
    /\ selfExits \in BOOLEAN
    /\ m_pc \in {"new", "spawned", "created", "idRecorded", "ctrStarted",
                 "started", "startFailed", "waiting", "waited"}
    /\ k_pc \in {"idle", "removeAll", "close"}
    /\ Len(killResults) <= MaxKills
    /\ cmdProcess \in {Nil, "proc"}
    /\ pid \in Pids \cup {0}
    /\ procState \in {"none", "running", "zombie", "reaped"}
    /\ id \in ContainerIDs \cup {""}
    /\ ctrState \in {"none", "created", "running", "exited"}
    /\ hostDirExists \in BOOLEAN
    /\ clientOpen \in BOOLEAN
    /\ stopRequests \in 0..MaxKills
    /\ Len(ctrLog) <= MaxFrames
    /\ demux_pc \in {"none", "copying", "writing", "done"}
    /\ pending.stream \in {"none", "stdout", "stderr"}
    /\ hostSocketDir \in HostDirs \cup {""}
    /\ unixSocketGroup \in SocketGroups
    /\ raCall.network \in Networks \cup {""}

---------------------------------------------------------------------------
(* Vocabulary of the properties.                                           *)

\* A ContainerStop request has been issued for the container.
stopRequested == stopRequests > 0

StartReturned == startRes # "none"

StartSucceeded == startRes = Nil

WaitBlocked == m_pc = "waiting"

WaitReturned == m_pc = "waited"

\* Lifecycle states of the contract's state machine.
StateNEW == m_pc = "new"

StateDEAD == m_pc = "startFailed"

KillsReturned == Len(killResults)

LastKillResult == killResults[Len(killResults)]

\* A step of the goroutine that executes Kill, and the step on which Kill
\* returns.
KillStep == k_pc' # k_pc \/ killResults' # killResults

KillReturnStep == Len(killResults') > Len(killResults)

\* The fields of the runner, and what the runner owns outside itself.
identityFields == <<id, pid, cmdProcess, stdout, stderr>>

ownedResources == <<hostDirExists, clientOpen>>

\* The workload as its supervisor sees it.
workloadState == <<procState, exitStatus, sigPending, ctrState, ctrExitCode,
                   stopRequests>>

ContainerLeft == ctrState \in {"created", "running"}

\* The workload ended with a non-zero status, by a signal, or with an
\* engine-reported error on completion.
AbnormalTermination ==
    IF variant = "cmd"
    THEN procState \in {"zombie", "reaped"} /\ exitStatus # "exit status 0"
    ELSE \/ ctrState = "exited" /\ ctrExitCode # 0
         \/ st.recv /\ st.err # Nil

NormalTermination ==
    IF variant = "cmd"
    THEN procState \in {"zombie", "reaped"} /\ exitStatus = "exit status 0"
    ELSE ctrState = "exited" /\ ctrExitCode = 0 /\ (st.recv => st.err = Nil)

---------------------------------------------------------------------------
(* C1.  For both variants, ID() is the empty string if and only if no      *)
(* Start call has succeeded on the handle.                                 *)
(* The code does not keep this: CmdRunner.ID() formats the zero pid as "0" *)
(* on a fresh handle, and ContainerRunner records the id before the start  *)
(* and attach steps that may still fail.                                   *)
C1_IDEmptyIffNoStartSucceeded == (ID = "") <=> ~StartSucceeded

---------------------------------------------------------------------------
(* C2 as stated.  A step of Kill taken in state NEW or DEAD changes no     *)
(* runner-owned state (the host rendezvous directory still exists, the     *)
(* client is still open), and Kill returns nil.                            *)
C2_KillBeforeStartIsNoOp ==
    [][(KillStep /\ (StateNEW \/ StateDEAD)) =>
         /\ UNCHANGED <<identityFields, ownedResources>>
         /\ (KillReturnStep => killResults'[Len(killResults')] = Nil)]_vars

(* C2 as amended.  A step of Kill taken in state NEW or DEAD leaves the    *)
(* runner's id, pid, process handle and stream handles unchanged.  For the *)
(* local runner it changes nothing at all and Kill returns nil.  For the   *)
(* container runner, while no container id is assigned it issues no stop   *)
(* request, leaves the engine's container untouched and returns nil; and   *)
(* when it returns, the host rendezvous directory has been removed and the *)
(* client closed.                                                          *)
C2_KillBeforeStartAmended ==
    [][(KillStep /\ (StateNEW \/ StateDEAD)) =>
         /\ UNCHANGED identityFields
         /\ variant = "cmd" =>
              /\ UNCHANGED <<ownedResources, workloadState>>
              /\ KillReturnStep /\ killResults'[Len(killResults')] = Nil
         /\ (variant = "container" /\ id = "") =>
              /\ UNCHANGED workloadState
              /\ k_err' = Nil
         /\ (variant = "container" /\ KillReturnStep) =>
              /\ ~hostDirExists' /\ ~clientOpen'
              /\ killResults'[Len(killResults')] = k_err]_vars

\* Kill has returned nil on a container runner that was never started: the
\* directory is gone and no stop request was made.
C2_Witness ==
    /\ variant = "container"
    /\ StateNEW
    /\ KillsReturned = 1 /\ LastKillResult = Nil
    /\ ~hostDirExists /\ ~clientOpen /\ ~stopRequested

---------------------------------------------------------------------------
(* C3.  Kill is idempotent: every step of a Kill that follows a finished   *)
(* Kill leaves the runner's state as the first one left it, and that Kill  *)
(* returns no error, whether or not Wait has returned in between.          *)
(* The code does not keep this: Process.Kill reports "os: process already  *)
(* finished" once Wait has reaped the child, and a failed stop request is  *)
(* returned by the container runner's Kill.                                *)
C3_KillIdempotent ==
    [][(KillStep /\ KillsReturned >= 1) =>
         /\ UNCHANGED <<identityFields, ownedResources>>
         /\ (KillReturnStep => killResults'[Len(killResults')] = Nil)]_vars

---------------------------------------------------------------------------
(* C4.  Once any Kill on the container runner has returned, the host       *)
(* rendezvous directory does not exist and the client is closed, whatever  *)
(* the case: no id assigned, stop succeeded, or stop failed.               *)
C4_KillReleasesResources ==
    (variant = "container" /\ KillsReturned >= 1) =>
        (~hostDirExists /\ ~clientOpen)

\* A Kill whose stop request failed has returned, with the resources gone.
C4_Witness ==
    /\ variant = "container"
    /\ KillsReturned = 1 /\ LastKillResult = "error: stop"
    /\ ctrState = "running"
    /\ ~hostDirExists /\ ~clientOpen

---------------------------------------------------------------------------
(* C5.  Once Wait has returned: if the workload terminated abnormally      *)
(* (non-zero exit status, or an engine-reported error), Wait returned an   *)
(* error; and Wait returned nil only after a termination with status zero  *)
(* and no engine error.                                                    *)
(* The code does not keep this: ContainerRunner.Wait never reads           *)
(* st.StatusCode, so a container that exits with a non-zero status and no  *)
(* engine error makes Wait return nil.                                     *)
C5_WaitReportsAbnormalExit ==
    WaitReturned =>
        /\ AbnormalTermination => waitRes # Nil
        /\ waitRes = Nil => NormalTermination

---------------------------------------------------------------------------
(* C6.  When Start has failed, no container is left created or running in  *)
(* the engine and no child process is left, and Start produced no stream   *)
(* handles (the container runner's handles are still nil).                 *)
(* The code does not keep this: a failed ContainerStart leaves the created *)
(* container behind, and a failed ContainerLogs leaves it running.         *)
C6_FailedStartReleases ==
    StateDEAD =>
        /\ StartReturned /\ ~StartSucceeded
        /\ ~ContainerLeft
        /\ procState = "none" /\ cmdProcess = Nil
        /\ variant = "container" => (Stdout = Nil /\ Stderr = Nil)

---------------------------------------------------------------------------
(* C7.  The host rendezvous directory exists in every state in which the   *)
(* container is created and not yet terminated.                            *)
(* The code does not keep this: Kill removes the directory whether or not  *)
(* the container was stopped.                                              *)
C7_DirExistsWhileContainerLives == ContainerLeft => hostDirExists

---------------------------------------------------------------------------
(* C8.  Whatever the interleaving of Kill with Start, once both calls have *)
(* returned the container is not left running without Kill having          *)
(* requested its stop.                                                     *)
(* The code does not keep this: Kill reads c.id without synchronisation    *)
(* and may see it empty although the container has been created.           *)
C8_KillStopsStartedContainer ==
    (variant = "container" /\ StartReturned /\ KillsReturned >= 1
        /\ k_pc = "idle" /\ ctrState = "running") => stopRequested

---------------------------------------------------------------------------
(* C9.  After a successful Start of a workload that exits on its own, a    *)
(* call to Wait eventually returns, and it returns once: after the return  *)
(* the owner makes no further step and the result stays.                   *)
C9_WaitEventuallyReturnsOnce ==
    /\ (WaitBlocked /\ selfExits) ~> WaitReturned
    /\ [][WaitReturned => (WaitReturned' /\ waitRes' = waitRes)]_vars
    /\ [](WaitReturned => (StartSucceeded /\ waitRes # "none"))

\* Wait has returned for a container that exited on its own, with no Kill.
C9_Witness ==
    /\ variant = "container"
    /\ selfExits
    /\ WaitReturned /\ st.recv
    /\ KillsReturned = 0 /\ k_pc = "idle"

---------------------------------------------------------------------------
---------------------------------------------------------------------------
(* Streams of the container runner.                                        *)

\* The demultiplex goroutine has ended.
DemuxDone == demux_pc = "done"

\* The engine's log response has been read to its end.
LogStreamAtEOF == demux_pc = "copying" /\ logReader = <<>>

BothStreamsAtEOF == outEOF /\ errEOF

\* The payloads of the frames of one stream, in the order of the frames.
RECURSIVE FramesOf(_, _)
FramesOf(frames, stream) ==
    IF frames = <<>> THEN <<>>
    ELSE IF Head(frames).stream = stream
         THEN <<Head(frames).data>> \o FramesOf(Tail(frames), stream)
         ELSE FramesOf(Tail(frames), stream)

\* C11: for the container runner, once the log stream is at EOF the
\* demultiplex goroutine ends; when it has ended the log reader and both
\* pipe write ends are closed; and after a successful Start a consumer
\* that keeps reading both streams observes EOF on Stdout and on Stderr.
C11_StreamsReachEOF ==
    /\ [](DemuxDone => logReaderClosed /\ stdoutWClosed /\ stderrWClosed)
    /\ (LogStreamAtEOF ~> DemuxDone)
    /\ ((variant = "container" /\ StartSucceeded) ~> BothStreamsAtEOF)

\* The workload has written to both streams and terminated, the log stream
\* ended without a decoding error, and both readers have seen EOF after
\* reading data.
C11_Witness ==
    /\ variant = "container"
    /\ ctrState = "exited"
    /\ DemuxDone /\ ~demuxErr
    /\ outRecv # <<>> /\ errRecv # <<>>
    /\ BothStreamsAtEOF

---------------------------------------------------------------------------
(* ResolveAddr of the container runner.                                    *)

\* A path relative to the container's rendezvous directory that names a
\* socket below it: not empty, not absolute, already clean, not leaving
\* the directory.
ValidBasename(b) ==
    /\ b # ""
    /\ SubSeq(b, 1, 1) # "/"
    /\ Clean(b) = b
    /\ Segments(b, 1, "")[1] \notin {".", ".."}

\* What the last call's address holds after the sentinel prefix.
LastCallBasename == TrimPrefix(raCall.address, SentinelPrefix)

\* The last call of ResolveAddr had the network "unix" and an address made
\* of the sentinel prefix and a valid basename.
SentinelCall ==
    /\ raCall.called
    /\ raCall.network = "unix"
    /\ HasPrefix(raCall.address, SentinelPrefix)
    /\ ValidBasename(LastCallBasename)

\* A host directory written as path.Clean writes it, below the root.
CleanDir(dir) == dir # "/" /\ Clean(dir) = dir

\* C12 as stated: for every valid basename b, ResolveAddr("unix",
\* "PLUGIN_UNIX_SOCKET_DIR:" + b) succeeds with the Unix address whose path
\* is hostDir + "/" + b.
C12_ResolveAddrYieldsHostPath ==
    SentinelCall =>
        /\ raRes.err = Nil
        /\ raRes.addr = [Net |-> "unix",
                         Name |-> hostSocketDir \o "/" \o LastCallBasename]

\* C12, amended: for every valid basename b, ResolveAddr("unix",
\* "PLUGIN_UNIX_SOCKET_DIR:" + b) succeeds with the Unix address whose path
\* is the cleaned form of hostDir + "/" + b; that is hostDir + "/" + b itself
\* when hostDir is a cleaned path other than the root.
C12_ResolveAddrYieldsCleanedHostPath ==
    SentinelCall =>
        /\ raRes.err = Nil
        /\ raRes.addr.Net = "unix"
        /\ raRes.addr.Name
               = Clean(hostSocketDir \o "/" \o LastCallBasename)
        /\ CleanDir(hostSocketDir) =>
               raRes.addr.Name = hostSocketDir \o "/" \o LastCallBasename

\* A started runner whose host directory is not written in its cleaned
\* form has resolved an address with a basename below a subdirectory.
C12_Witness ==
    /\ SentinelCall
    /\ StartSucceeded
    /\ ~CleanDir(hostSocketDir)
    /\ LastCallBasename = "sub/plugin.sock"

\* The last call of ResolveAddr had a network other than "unix", or a
\* "unix" address without the sentinel prefix.
UnsupportedCall ==
    /\ raCall.called
    /\ \/ raCall.network # "unix"
       \/ ~HasPrefix(raCall.address, SentinelPrefix)

\* A step on which a call of ResolveAddr returned.
ResolveAddrStep == raCall' # raCall \/ raRes' # raRes

\* C13: ResolveAddr of the container runner returns an error and no address
\* for every network other than "unix" and for every "unix" address without
\* the sentinel prefix, the latter error mentioning "needs an update"; and a
\* call of ResolveAddr, whatever it returns and wherever the runner is in
\* its life, changes neither the id, the streams, the host directory nor the
\* client, nor anything else of the runner.
C13_ResolveAddrRejectsAndLeavesState ==
    /\ [](UnsupportedCall =>
             /\ raRes.addr = NilAddr
             /\ raRes.err # Nil
             /\ raCall.network = "unix" =>
                    Contains(raRes.err, "needs an update"))
    /\ [][ResolveAddrStep =>
             UNCHANGED <<id, respID, stdout, stderr, hostSocketDir,
                         hostDirExists, clientOpen, ctrState, ownerVars,
                         killerVars, cfgVars>>]_vars

\* After Wait and a Kill have returned, ResolveAddr has rejected a plain
\* absolute path with the incompatibility error.
C13_Witness ==
    /\ WaitReturned /\ KillsReturned >= 1
    /\ raCall.called
    /\ raCall.network = "unix"
    /\ raCall.address = "/tmp/plugin.sock"
    /\ raRes.addr = NilAddr
    /\ Contains(raRes.err, "needs an update")

---------------------------------------------------------------------------
(* Stream handles.                                                         *)

\* C14: for both variants, once a successful Start has returned, Stdout()
\* and Stderr() return non-nil handles, and every later step (Wait, Kill,
\* the workload's exit, the streams' traffic) leaves both handles as they
\* are.
C14_StreamHandlesValidFromRunning ==
    /\ [](StartSucceeded => Stdout # Nil /\ Stderr # Nil)
    /\ [][StartSucceeded => UNCHANGED <<stdout, stderr>>]_vars

\* A container runner whose Start succeeded, whose Wait has returned and
\* on which Kill has returned, with both handles in place.
C14_Witness ==
    /\ variant = "container"
    /\ StartSucceeded
    /\ WaitReturned
    /\ KillsReturned >= 1
    /\ Stdout = "stdoutPipeReader" /\ Stderr = "stderrPipeReader"

\* C15: for the container runner, every frame the container emitted on
\* stdout (stderr) before it terminated, frames emitted after Start
\* returned included, is read from Stdout() (Stderr()) by a consumer that
\* keeps reading both streams, in the order of emission and on no other
\* stream.  Once both streams have reported EOF nothing more can be read,
\* so by then what was read must be all that was emitted.
C15_EveryFrameDelivered ==
    (/\ variant = "container"
     /\ StartSucceeded
     /\ ctrState = "exited"
     /\ ~demuxErr
     /\ BothStreamsAtEOF)
        => /\ outRecv = FramesOf(ctrLog, "stdout")
           /\ errRecv = FramesOf(ctrLog, "stderr")

---------------------------------------------------------------------------
(* Wait of the container runner.                                           *)

\* The step on which the container runner's Wait returns.
ContainerWaitReturnStep ==
    variant = "container" /\ m_pc # "waited" /\ m_pc' = "waited"

\* C16: the container runner's Wait returns only from its select, on the
\* delivery of one of the two channels: with the error channel's value as
\* the failure, or, on a status, with the status's error message as the
\* failure when the error field is set and with nil when it is not.
C16_WaitReturnsFirstDelivery ==
    /\ [][ContainerWaitReturnStep =>
             /\ WaitBlocked
             /\ \/ /\ st' = st
                   /\ waitRes' = "error: transport"
                \/ /\ ~st.recv /\ st'.recv
                   /\ waitRes' = IF st'.err # Nil THEN st'.err ELSE Nil]_vars
    /\ []((variant = "container" /\ waitRes # "none") => WaitReturned)

\* Wait has returned the message of a status whose error field was set.
C16_Witness ==
    /\ variant = "container"
    /\ WaitReturned
    /\ st.recv /\ st.err = "engine error message"
    /\ waitRes = "engine error message"

---------------------------------------------------------------------------
(* Errors of the demultiplex goroutine.                                    *)

\* The step on which StdCopy returns an error.
DecodeErrorStep == ~demuxErr /\ demuxErr'

\* C17: a decoding error in the demultiplex goroutine changes nothing of
\* the runner's lifecycle, of what Wait and Kill have returned or will
\* return, or of ID and Name; it closes both pipe write ends, and a consumer
\* that keeps reading then sees EOF on Stdout and on Stderr.
C17_DecodeErrorOnlyEndsStreams ==
    /\ [][DecodeErrorStep =>
             /\ UNCHANGED <<ownerVars, killerVars, ctrVars, cmdVars,
                            streamVars, envVars, cfgVars>>
             /\ ID' = ID
             /\ UNCHANGED <<outRecv, errRecv>>
             /\ stdoutWClosed' /\ stderrWClosed']_vars
    /\ (demuxErr ~> BothStreamsAtEOF)

\* The log held frames, decoding failed before any was delivered, both
\* readers saw EOF with nothing read, and Wait has returned nil.
C17_Witness ==
    /\ variant = "container"
    /\ demuxErr
    /\ ctrLog # <<>> /\ logReader # <<>>
    /\ outRecv = <<>> /\ errRecv = <<>>
    /\ BothStreamsAtEOF
    /\ WaitReturned /\ waitRes = Nil

---------------------------------------------------------------------------
(* Configuration of the container.                                         *)

\* The environment has an entry that sets the variable.
HasEnvVar(env, name) ==
    \E i \in 1..Len(env) : HasPrefix(env[i], name \o "=")

HasEnvEntry(env, entry) == \E i \in 1..Len(env) : env[i] = entry

\* The mounts hold a read-write bind mount of the directory at the target.
HasBindMount(mounts, source, target) ==
    \E i \in 1..Len(mounts) :
        /\ mounts[i].Type = "bind"
        /\ mounts[i].Source = source
        /\ mounts[i].Target = target
        /\ ~mounts[i].ReadOnly

\* Before Start is called nothing has been created; the create request
\* carries the bind mount and the directory variable.
ConstructorCreatesNothing ==
    /\ StateNEW => (id = "" /\ ~createReq.issued /\ ctrState = "none")
    /\ createReq.issued =>
          /\ HasBindMount(createReq.mounts, hostSocketDir, "/tmp")
          /\ HasEnvEntry(createReq.env, "PLUGIN_UNIX_SOCKET_DIR=/tmp")

\* C18 as stated: constructing a container runner creates no container
\* (empty id, no create request before Start is called); the configuration
\* Start creates the container with holds the bind mount hostDir -> "/tmp"
\* and the entry PLUGIN_UNIX_SOCKET_DIR=/tmp, and holds a
\* PLUGIN_UNIX_SOCKET_GROUP entry if and only if the group id is non-zero.
C18_ConfigGroupIffNonZero ==
    /\ ConstructorCreatesNothing
    /\ createReq.issued =>
          (HasEnvVar(createReq.env, "PLUGIN_UNIX_SOCKET_GROUP")
              <=> unixSocketGroup # 0)

\* C18, amended: as above, except that the environment of the create
\* request is the caller's environment followed by
\* PLUGIN_UNIX_SOCKET_DIR=/tmp and, if and only if the group id is non-zero,
\* by PLUGIN_UNIX_SOCKET_GROUP=<group id>; entries the caller supplied,
\* one for PLUGIN_UNIX_SOCKET_GROUP included, are passed on as they are.
C18_ConfigGroupAppendedIffNonZero ==
    /\ ConstructorCreatesNothing
    /\ createReq.issued =>
          \E callerEnv \in CallerEnvs :
              createReq.env =
                  callerEnv \o <<"PLUGIN_UNIX_SOCKET_DIR=/tmp">>
                      \o (IF unixSocketGroup # 0
                          THEN <<"PLUGIN_UNIX_SOCKET_GROUP="
                                     \o FormatInt(unixSocketGroup)>>
                          ELSE <<>>)

\* Start has created and started the container of a runner constructed
\* with a group id, a caller's mount and a caller's environment.
C18_Witness ==
    /\ StartSucceeded
    /\ createReq.issued
    /\ unixSocketGroup = 1000
    /\ Len(createReq.mounts) = 2
    /\ Len(createReq.env) = 3
    /\ HasEnvEntry(createReq.env, "PLUGIN_UNIX_SOCKET_GROUP=1000")

---------------------------------------------------------------------------
(* Order of the steps of the container runner's Kill.                      *)

\* Steps on which a stop request is issued, the host directory is removed,
\* the engine client is closed.
StopIssuedStep == stopRequests' # stopRequests

DirRemovedStep == hostDirExists /\ ~hostDirExists'

ClientClosedStep == clientOpen /\ ~clientOpen'

\* C19: inside the container runner's Kill a stop request is issued only
\* when the id is not empty, as Kill's first step, and it has returned
\* before anything else happens; the host directory is removed only after
\* that step, while the client is still open; the client is closed only
\* after the directory is gone, as Kill's last step.
C19_KillOrdersStopRemoveClose ==
    /\ [][StopIssuedStep =>
             /\ id # ""
             /\ k_pc = "idle" /\ k_pc' = "removeAll"
             /\ UNCHANGED <<hostDirExists, clientOpen>>]_vars
    /\ [][DirRemovedStep =>
             /\ k_pc = "removeAll" /\ k_pc' = "close"
             /\ UNCHANGED <<stopRequests, ctrState, clientOpen>>
             /\ clientOpen]_vars
    /\ [][ClientClosedStep =>
             /\ k_pc = "close" /\ k_pc' = "idle"
             /\ ~hostDirExists
             /\ UNCHANGED stopRequests]_vars
    /\ [](k_pc = "close" => ~hostDirExists)

\* A Kill on a started container has issued its stop request, removed the
\* directory and closed the client, and has returned.
C19_Witness ==
    /\ variant = "container"
    /\ StartSucceeded
    /\ KillsReturned = 1 /\ k_pc = "idle"
    /\ stopRequests = 1
    /\ ~hostDirExists /\ ~clientOpen

=============================================================================
